---- MODULE Spec2Model ----
(***************************************************************************)
(* The transit-query subsystem of S-TirolShare (backend/routes/transport): *)
(* four express handlers (route search, station search by name, station    *)
(* search by coordinates, departures), each sequencing validation, a       *)
(* redis lookup, a provider request, classification, normalization and a   *)
(* redis write.  A handler runs up to its next await in one step; calls    *)
(* interleave at the awaits (redis get, axios get, redis set).             *)
(***************************************************************************)
EXTENDS Integers, Sequences, FiniteSets, TLC

VARIABLES
    redisReady,   \* redisClient.isReady
    cache,        \* the redis keyspace: key -> [val, ttl, left]
    call,         \* per request: handler position and everything it has seen and sent
    probe,        \* a normalizer applied on its own: its input and its result
    rideshare,    \* the bookings table and the POST /:id/book requests in progress
    page          \* the map page: its station suggestions and its searches in flight

vars == <<redisReady, cache, call, probe, rideshare, page>>

(***************************************************************************)
(* Bounds of the model.                                                    *)
(***************************************************************************)
MaxCalls == 2          \* requests handled in one behaviour
MaxBookings == 2       \* booking requests handled in one behaviour
MaxSearches == 3       \* station searches the map page issues in one behaviour
TickSeconds == 1800    \* time passes in steps of this many seconds

Calls == 1..MaxCalls

(***************************************************************************)
(* JavaScript values.  A query parameter or a payload field that is absent *)
(* is a field that is not in the record's DOMAIN; Undefined is what        *)
(* reading it gives.  null (a miss, absent coordinates) is the empty       *)
(* tuple, a present value is wrapped in a one-element tuple.               *)
(***************************************************************************)
Undefined == "\\undefined"
Get(o, f) == IF f \in DOMAIN o THEN o[f] ELSE Undefined
Has(o, f) == f \in DOMAIN o
\* !v for a string-or-undefined v is false exactly for a non-empty string
Truthy(v) == v # Undefined /\ v # ""
\* a || b
Or(a, b) == IF Truthy(a) THEN a ELSE b
\* `${v}`
ToStr(v) == IF v = Undefined THEN "undefined" ELSE v

RECURSIVE TrimStart(_)
TrimStart(s) == IF Len(s) > 0 /\ Head(s) = " " THEN TrimStart(Tail(s)) ELSE s
RECURSIVE TrimEnd(_)
TrimEnd(s) ==
    IF Len(s) > 0 /\ SubSeq(s, Len(s), Len(s)) = " "
    THEN TrimEnd(SubSeq(s, 1, Len(s) - 1)) ELSE s
\* String.prototype.trim
Trim(s) == TrimEnd(TrimStart(s))

(***************************************************************************)
(* Numbers.  parseFloat reads the longest numeric prefix of a string; the  *)
(* model keeps five decimals (a value is an integer count of 1e-5) and     *)
(* reads sign, digits and one decimal point.  NaN is the empty tuple.      *)
(***************************************************************************)
Digits == <<"0", "1", "2", "3", "4", "5", "6", "7", "8", "9">>
IsDigit(ch) == \E i \in 1..10 : Digits[i] = ch
DigitVal(ch) == (CHOOSE i \in 1..10 : Digits[i] = ch) - 1
Scale == 10 * 10 * 10 * 10 * 10
NaN == <<>>
IsNaN(n) == n = NaN

RECURSIVE TakeDigits(_)
TakeDigits(s) ==
    IF Len(s) > 0 /\ IsDigit(Head(s)) THEN Head(s) \o TakeDigits(Tail(s)) ELSE ""
RECURSIVE DigitsToInt(_, _)
DigitsToInt(s, acc) ==
    IF Len(s) = 0 THEN acc ELSE DigitsToInt(Tail(s), acc * 10 + DigitVal(Head(s)))
Drop(s, n) == SubSeq(s, n + 1, Len(s))
Signed(t) == Len(t) > 0 /\ Head(t) \in {"-", "+"}

parseFloat(s) ==
    LET t == TrimStart(s)
        neg == Len(t) > 0 /\ Head(t) = "-"
        u == IF Signed(t) THEN Tail(t) ELSE t
        ip == TakeDigits(u)
        rest == Drop(u, Len(ip))
        fp == IF Len(rest) > 0 /\ Head(rest) = "." THEN TakeDigits(Tail(rest)) ELSE ""
        mag == DigitsToInt(ip, 0) * Scale + DigitsToInt(SubSeq(fp \o "00000", 1, 5), 0)
    IN  IF Len(ip) = 0 /\ Len(fp) = 0 THEN NaN
        ELSE <<IF neg THEN 0 - mag ELSE mag>>

\* parseInt(s, 10): sign and digits, NaN when there is no digit
parseInt(s) ==
    LET t == TrimStart(s)
        neg == Len(t) > 0 /\ Head(t) = "-"
        u == IF Signed(t) THEN Tail(t) ELSE t
        ip == TakeDigits(u)
    IN  IF Len(ip) = 0 THEN NaN
        ELSE <<IF neg THEN 0 - DigitsToInt(ip, 0) ELSE DigitsToInt(ip, 0)>>

RECURSIVE IntToStr(_)
IntToStr(n) ==
    IF n < 0 THEN "-" \o IntToStr(0 - n)
    ELSE IF n < 10 THEN Digits[n + 1]
    ELSE IntToStr(n \div 10) \o Digits[(n % 10) + 1]

\* Number.prototype.toFixed(4) of a value v (in 1e-5): nearest multiple of 1e-4,
\* the larger one on a tie, four decimals always written
toFixed4(v) ==
    LET m == IF v < 0 THEN 0 - v ELSE v
        r == (m + 5) \div 10
        frac == IntToStr(r % 10000)
        pad == SubSeq("0000", 1, 4 - Len(frac))
    IN  (IF v < 0 THEN "-" ELSE "") \o IntToStr(r \div 10000) \o "." \o pad \o frac

\* String.prototype.split(',')
RECURSIVE Split(_, _)
Split(s, acc) ==
    IF Len(s) = 0 THEN <<acc>>
    ELSE IF Head(s) = "," THEN <<acc>> \o Split(Tail(s), "")
    ELSE Split(Tail(s), acc \o Head(s))

(***************************************************************************)
(* Provider payloads.  A JSON object is a record holding the fields that   *)
(* are present; a field the provider sends either as one object or as an   *)
(* array is tagged: [obj |-> r] or [arr |-> <<r1, ...>>].                  *)
(***************************************************************************)
Obj(r) == [obj |-> r]
Arr(a) == [arr |-> a]
IsArray(v) == "arr" \in DOMAIN v
NoObject == [x \in {} |-> ""]
\* o?.f for an object-valued field: the empty object stands for undefined
Sub(o, f) == IF f \in DOMAIN o THEN o[f] ELSE NoObject

\* extractCoords: "lon,lat" to [lat, lon]; null is <<>>
extractCoords(pointRef) ==
    IF ~Truthy(Get(pointRef, "coords")) THEN <<>>
    ELSE LET parts == Split(pointRef.coords, "")
         IN  IF Len(parts) = 2
             THEN LET lon == parseFloat(parts[1])
                      lat == parseFloat(parts[2])
                  IN  IF ~IsNaN(lat) /\ ~IsNaN(lon) THEN <<lat[1], lon[1]>> ELSE <<>>
             ELSE <<>>

\* the points of a stop-finder answer as an array, whatever their shape
pointsArray(efaData) ==
    LET sf == Sub(efaData, "stopFinder")
    IN  IF ~Has(sf, "points") THEN <<>>
        ELSE LET pointsData == sf.points
             IN  IF IsArray(pointsData) THEN pointsData.arr
                 ELSE IF Has(pointsData.obj, "point")
                      THEN (IF IsArray(pointsData.obj.point)
                            THEN pointsData.obj.point.arr
                            ELSE <<pointsData.obj.point.obj>>)
                      ELSE <<pointsData.obj>>

stationId(point) ==
    Or(Get(Sub(point, "ref"), "id"),
       Or(Get(point, "stateless"),
          "gen_" \o ToStr(Get(point, "name")) \o "_"
                 \o ToStr(Or(Get(point, "locality"), Get(Sub(point, "ref"), "place")))))

buildStation(point) ==
    [id |-> stationId(point),
     name |-> Or(Get(point, "name"), "Unbekannter Name"),
     locality |-> Or(Get(point, "locality"),
                     Or(Get(Sub(point, "ref"), "place"), "Unbekannter Ort")),
     coords |-> extractCoords(Sub(point, "ref")),
     type |-> Or(Get(point, "anyType"), "unknown")]

\* router.get('/stations'): the station list built from a payload without error
buildStations(efaData) ==
    [i \in 1..Len(pointsArray(efaData)) |-> buildStation(pointsArray(efaData)[i])]

(***************************************************************************)
(* Scalars whose JavaScript type matters to the code are tagged: a number  *)
(* [num |-> n], a string [str |-> s], null [null |-> TRUE]; an absent      *)
(* field reads as JsUndefined.                                             *)
(***************************************************************************)
Num(n) == [num |-> n]
Str(s) == [str |-> s]
JsNull == [null |-> TRUE]
JsUndefined == [undefined |-> TRUE]
Val(o, f) == IF f \in DOMAIN o THEN o[f] ELSE JsUndefined
IsNum(v) == "num" \in DOMAIN v
IsStr(v) == "str" \in DOMAIN v
\* !!v
TruthyVal(v) == (IsNum(v) /\ v.num # 0) \/ (IsStr(v) /\ v.str # "")
\* a string-or-undefined as a tagged value, null when it is falsy: s || null
StrOrNull(s) == IF Truthy(s) THEN Str(s) ELSE JsNull

\* the station list of router.get('/stations/nearby'): each station with the
\* distance the provider gave, when it gave one
buildNearbyStation(point) ==
    IF Has(Sub(point, "ref"), "distance")
    THEN [id |-> stationId(point),
          name |-> buildStation(point).name,
          locality |-> buildStation(point).locality,
          coords |-> buildStation(point).coords,
          type |-> buildStation(point).type,
          distance |-> point.ref.distance]
    ELSE buildStation(point)

\* a.distance || Infinity, as a number: <<>> is Infinity
distanceKey(st) ==
    IF Has(st, "distance") /\ TruthyVal(st.distance)
    THEN (IF IsNum(st.distance) THEN <<st.distance.num>>
          ELSE <<DigitsToInt(st.distance.str, 0)>>)
    ELSE <<>>
\* the comparator (a, b) => (a.distance || Infinity) - (b.distance || Infinity) is < 0
distanceLess(a, b) ==
    /\ distanceKey(a) # <<>>
    /\ distanceKey(b) = <<>> \/ distanceKey(a)[1] < distanceKey(b)[1]

\* Array.prototype.sort with that comparator: a stable sort
RECURSIVE insertByDistance(_, _)
insertByDistance(sorted, st) ==
    IF Len(sorted) = 0 THEN <<st>>
    ELSE IF distanceLess(st, Head(sorted)) THEN <<st>> \o sorted
    ELSE <<Head(sorted)>> \o insertByDistance(Tail(sorted), st)
RECURSIVE sortByDistance(_)
sortByDistance(stations) ==
    IF Len(stations) = 0 THEN <<>>
    ELSE insertByDistance(sortByDistance(SubSeq(stations, 1, Len(stations) - 1)),
                          stations[Len(stations)])

buildNearbyStations(efaData) ==
    LET stations == [i \in 1..Len(pointsArray(efaData)) |->
                        buildNearbyStation(pointsArray(efaData)[i])]
    IN  IF Len(stations) > 0 /\ Has(stations[1], "distance")
        THEN sortByDistance(stations) ELSE stations

(***************************************************************************)
(* Time.  A Date is a count of seconds (local time, from 2000-01-01T00:00, *)
(* no daylight saving), null is <<>>.                                      *)
(***************************************************************************)
padStart2(s) == IF Len(s) < 2 THEN SubSeq("00", 1, 2 - Len(s)) \o s ELSE s
AllDigits(s, n) == Len(s) = n /\ \A i \in 1..Len(s) : IsDigit(SubSeq(s, i, i))
IsLeap(y) == (y % 4 = 0 /\ y % 100 # 0) \/ y % 400 = 0
LeapsBefore(y) == ((y - 1) \div 4) - ((y - 1) \div 100) + ((y - 1) \div 400)
DaysBeforeMonth(y, m) ==
    LET len == <<31, IF IsLeap(y) THEN 29 ELSE 28, 31, 30, 31, 30, 31, 31, 30, 31, 30, 31>>
        sum[k \in 0..12] == IF k = 0 THEN 0 ELSE sum[k - 1] + len[k]
    IN  sum[m - 1]
DaysFrom2000(y, m, d) ==
    365 * (y - 2000) + (LeapsBefore(y) - LeapsBefore(2000)) + DaysBeforeMonth(y, m) + (d - 1)

\* new Date("YYYY-MM-DDTHH:MM:00") as node parses it: four-digit year, two-digit
\* month 01-12, day 01-31 (a day past the month's end rolls over), hour 00-24
\* (24 only as 24:00), minute 00-59; anything else is an Invalid Date
parseIsoLocal(year, month, day, hour, minute) ==
    IF /\ AllDigits(year, 4) /\ AllDigits(month, 2) /\ AllDigits(day, 2)
       /\ AllDigits(hour, 2) /\ AllDigits(minute, 2)
    THEN LET y == DigitsToInt(year, 0)
             mo == DigitsToInt(month, 0)
             d == DigitsToInt(day, 0)
             h == DigitsToInt(hour, 0)
             mi == DigitsToInt(minute, 0)
         IN  IF /\ mo \in 1..12 /\ d \in 1..31 /\ mi \in 0..59
                /\ (h \in 0..23 \/ (h = 24 /\ mi = 0))
             THEN <<((DaysFrom2000(y, mo, d) * 24 + h) * 60 + mi) * 60>>
             ELSE <<>>
    ELSE <<>>

parseEfaDateTime(efaDateTime) ==
    IF \E f \in {"year", "month", "day", "hour", "minute"} : ~Has(efaDateTime, f)
    THEN <<>>
    ELSE parseIsoLocal(efaDateTime.year, padStart2(efaDateTime.month),
                       padStart2(efaDateTime.day), padStart2(efaDateTime.hour),
                       padStart2(efaDateTime.minute))

\* "HH:MM" of a Date, Undefined (for null) when there is none
formatTime(jsDate) ==
    IF jsDate = <<>> THEN Undefined
    ELSE padStart2(IntToStr((jsDate[1] \div 3600) % 24)) \o ":"
         \o padStart2(IntToStr((jsDate[1] \div 60) % 60))

\* calculateDurationMinutes without its test for a negative difference
calculateDurationMinutesSigned(startDate, endDate) ==
    IF startDate = <<>> \/ endDate = <<>> THEN <<>>
    ELSE <<(endDate[1] - startDate[1] + 30) \div 60>>

\* minutes from startDate to endDate, rounded; null (<<>>) when either is missing
\* or endDate is before startDate
calculateDurationMinutes(startDate, endDate) ==
    IF startDate = <<>> \/ endDate = <<>> THEN <<>>
    ELSE IF endDate[1] - startDate[1] < 0 THEN <<>>
    ELSE <<(endDate[1] - startDate[1] + 30) \div 60>>

(***************************************************************************)
(* Departures.                                                             *)
(***************************************************************************)
\* the departure monitor's message says the stop is unknown (-3010, -3011)
stopNotFound(efaData) ==
    LET dm == Sub(efaData, "departureMonitor")
    IN  IF ~Has(dm, "message") THEN FALSE
        ELSE IF IsArray(dm.message)
        THEN \E i \in 1..Len(dm.message.arr) :
                /\ Get(dm.message.arr[i], "name") = "code"
                /\ Get(dm.message.arr[i], "value") \in {"-3010", "-3011"}
        ELSE Val(dm.message.obj, "code") \in {Num(-3010), Num(-3011)}

\* dep.delay || 0, then the recomputed delay when that is exactly the number 0
delayMinutes(dep) ==
    LET scheduledDateTime == parseEfaDateTime(Sub(dep, "dateTime"))
        realDateTime == parseEfaDateTime(Sub(dep, "realDateTime"))
        provided == IF TruthyVal(Val(dep, "delay")) THEN dep.delay ELSE Num(0)
        calculatedDelay == calculateDurationMinutes(scheduledDateTime, realDateTime)
    IN  IF realDateTime # <<>> /\ scheduledDateTime # <<>> /\ provided = Num(0)
           /\ calculatedDelay # <<>> /\ calculatedDelay[1] > 0
        THEN Num(calculatedDelay[1])
        ELSE provided

buildDeparture(dep) ==
    LET scheduledTime == formatTime(parseEfaDateTime(Sub(dep, "dateTime")))
        realTime == formatTime(parseEfaDateTime(Sub(dep, "realDateTime")))
        sl == Sub(dep, "servingLine")
    IN  [line |-> Or(Get(sl, "number"), "?"),
         direction |-> Or(Get(sl, "direction"), Or(Get(sl, "directionFrom"), "N/A")),
         platform |-> Or(Get(sl, "platformName"),
                         Or(Get(dep, "platformName"), Or(Get(sl, "platform"), "N/A"))),
         time |-> Or(scheduledTime, "N/A"),
         realTime |-> IF Truthy(realTime) /\ realTime # scheduledTime
                      THEN Str(realTime) ELSE JsNull,
         delay |-> delayMinutes(dep),
         type |-> Or(Get(sl, "name"), "Unknown")]

departureListArray(efaData) ==
    IF ~Has(efaData, "departureList") THEN <<>>
    ELSE IF IsArray(efaData.departureList) THEN efaData.departureList.arr
    ELSE <<efaData.departureList.obj>>

buildDepartures(efaData) ==
    [i \in 1..Len(departureListArray(efaData)) |->
        buildDeparture(departureListArray(efaData)[i])]

(***************************************************************************)
(* Routes.                                                                 *)
(***************************************************************************)
hasAmbiguousCode(endpoint) ==
    /\ Has(endpoint, "message")
    /\ IsArray(endpoint.message)
    /\ \E i \in 1..Len(endpoint.message.arr) :
          /\ Get(endpoint.message.arr[i], "name") = "code"
          /\ Get(endpoint.message.arr[i], "value") = "-8011"

\* ambiguousLocation with the destination's messages left unread
ambiguousOriginOnly(efaData) ==
    hasAmbiguousCode(Sub(efaData, "origin")) /\ ~Has(efaData, "trips")

\* (originAmbiguous || destAmbiguous) && !efaData.trips
ambiguousLocation(efaData) ==
    /\ hasAmbiguousCode(Sub(efaData, "origin")) \/ hasAmbiguousCode(Sub(efaData, "destination"))
    /\ ~Has(efaData, "trips")

tripsArray(efaData) ==
    IF ~Has(efaData, "trips") THEN <<>>
    ELSE IF IsArray(efaData.trips) THEN efaData.trips.arr
    ELSE <<efaData.trips.obj>>

legsArray(trip) ==
    IF ~Has(trip, "legs") THEN <<>>
    ELSE IF IsArray(trip.legs) THEN trip.legs.arr
    ELSE <<trip.legs.obj>>

\* leg.points?.[0] and leg.points?.[leg.points.length - 1]: only an array has them
originPoint(leg) ==
    IF Has(leg, "points") /\ IsArray(leg.points) /\ Len(leg.points.arr) > 0
    THEN leg.points.arr[1] ELSE NoObject
destinationPoint(leg) ==
    IF Has(leg, "points") /\ IsArray(leg.points) /\ Len(leg.points.arr) > 0
    THEN leg.points.arr[Len(leg.points.arr)] ELSE NoObject

departureDateTime(leg) == parseEfaDateTime(Sub(originPoint(leg), "dateTime"))
arrivalDateTime(leg) == parseEfaDateTime(Sub(destinationPoint(leg), "dateTime"))
legDuration(leg) == calculateDurationMinutes(departureDateTime(leg), arrivalDateTime(leg))

\* the waiting time before a leg, given the arrival of the leg before it
waitingTime(previousLegArrivalDateTime, leg) ==
    IF previousLegArrivalDateTime # <<>> /\ departureDateTime(leg) # <<>>
    THEN calculateDurationMinutes(previousLegArrivalDateTime, departureDateTime(leg))
    ELSE <<>>

\* legContribution with the waiting time left out
legContributionWithoutWait(previousLegArrivalDateTime, leg) ==
    IF legDuration(leg) # <<>> THEN legDuration(leg)[1] ELSE 0

\* what one leg adds to calculatedTotalDuration
legContribution(previousLegArrivalDateTime, leg) ==
    IF legDuration(leg) # <<>>
    THEN legDuration(leg)[1]
         + (IF /\ waitingTime(previousLegArrivalDateTime, leg) # <<>>
               /\ waitingTime(previousLegArrivalDateTime, leg)[1] > 0
            THEN waitingTime(previousLegArrivalDateTime, leg)[1] ELSE 0)
    ELSE 0

RECURSIVE totalFrom(_, _, _)
totalFrom(legs, i, previousLegArrivalDateTime) ==
    IF i > Len(legs) THEN 0
    ELSE legContribution(previousLegArrivalDateTime, legs[i])
         + totalFrom(legs, i + 1, arrivalDateTime(legs[i]))
calculatedTotalDuration(trip) == totalFrom(legsArray(trip), 1, <<>>)

\* operatorInfo?.name || leg.servingLine?.name || null
operatorName(leg) ==
    LET sl == Sub(leg, "servingLine")
        operatorInfo == IF Has(sl, "operator") THEN sl.operator
                        ELSE Sub(Sub(leg, "mode"), "operator")
    IN  StrOrNull(Or(Get(operatorInfo, "name"), Get(sl, "name")))

isWalk(leg) == Get(leg, "type") = "WALK" \/ Get(Sub(leg, "mode"), "type") = "FOOTPATH"
segmentType(leg) ==
    IF isWalk(leg) THEN "Fussweg"
    ELSE IF Truthy(Get(Sub(leg, "mode"), "name")) THEN leg.mode.name
    ELSE "OEPNV"

NumOrNull(d) == IF d = <<>> THEN JsNull ELSE Num(d[1])
\* leg.duration || segmentDuration for a walk, segmentDuration otherwise
segmentDuration(leg) ==
    IF isWalk(leg) /\ TruthyVal(Val(leg, "duration")) THEN leg.duration
    ELSE NumOrNull(legDuration(leg))

buildSegment(leg) ==
    [type |-> segmentType(leg),
     from |-> Or(Get(originPoint(leg), "name"), "N/A"),
     to |-> Or(Get(destinationPoint(leg), "name"), "N/A"),
     fromCoords |-> extractCoords(Sub(originPoint(leg), "ref")),
     toCoords |-> extractCoords(Sub(destinationPoint(leg), "ref")),
     departureTime |-> StrOrNull(formatTime(departureDateTime(leg))),
     arrivalTime |-> StrOrNull(formatTime(arrivalDateTime(leg))),
     segmentDuration |-> segmentDuration(leg),
     line |-> Or(Get(Sub(leg, "mode"), "number"), Or(Get(Sub(leg, "mode"), "destination"), "")),
     direction |-> StrOrNull(Get(Sub(leg, "mode"), "direction")),
     operator |-> operatorName(leg)]

\* buildRoute with the calculated total replacing the provider's duration
\* even when it is 0
buildRouteOverridingAlways(trip) ==
    [duration |-> Num(calculatedTotalDuration(trip)),
     interchanges |-> IF TruthyVal(Val(trip, "interchanges")) THEN trip.interchanges ELSE Num(0),
     segments |-> [i \in 1..Len(legsArray(trip)) |-> buildSegment(legsArray(trip)[i])]]

buildRoute(trip) ==
    [duration |-> IF calculatedTotalDuration(trip) > 0 THEN Num(calculatedTotalDuration(trip))
                  ELSE IF TruthyVal(Val(trip, "duration")) THEN trip.duration ELSE JsNull,
     interchanges |-> IF TruthyVal(Val(trip, "interchanges")) THEN trip.interchanges ELSE Num(0),
     segments |-> [i \in 1..Len(legsArray(trip)) |-> buildSegment(legsArray(trip)[i])]]

RECURSIVE routesFrom(_, _)
routesFrom(trips, i) ==
    IF i > Len(trips) THEN <<>>
    ELSE (IF Len(legsArray(trips[i])) > 0 THEN <<buildRoute(trips[i])>> ELSE <<>>)
         \o routesFrom(trips, i + 1)
buildRoutes(efaData) == routesFrom(tripsArray(efaData), 1)

(***************************************************************************)
(* The four handlers.  What differs between them is gathered here, keyed   *)
(* by endpoint; the steps they share follow.                               *)
(***************************************************************************)
Endpoints == {"route", "stations", "nearby", "departures"}

Response(status, body) == [status |-> status, body |-> body]
Failure(message) == [success |-> FALSE, message |-> message]

\* radius = 1000 when the parameter is absent
radiusOf(q) == IF Has(q, "radius") THEN parseInt(q.radius) ELSE <<1000>>

nearbyOutOfRange(q) ==
    LET latitude == parseFloat(q.lat)
        longitude == parseFloat(q.lon)
        searchRadius == radiusOf(q)
    IN  \/ IsNaN(latitude) \/ IsNaN(longitude) \/ IsNaN(searchRadius)
        \/ searchRadius[1] <= 0
        \/ latitude[1] > 90 * Scale \/ latitude[1] < 0 - 90 * Scale
        \/ longitude[1] > 180 * Scale \/ longitude[1] < 0 - 180 * Scale

\* invalidInput with the stations query measured untrimmed
invalidInputUntrimmed(op, q) ==
    CASE op = "route" -> ~Truthy(Get(q, "from")) \/ ~Truthy(Get(q, "to"))
      [] op = "stations" -> ~Truthy(Get(q, "query")) \/ Len(q.query) < 3
      [] op = "nearby" ->
            \/ ~Truthy(Get(q, "lat")) \/ ~Truthy(Get(q, "lon"))
            \/ nearbyOutOfRange(q)
      [] op = "departures" -> ~Truthy(Get(q, "stationId")) /\ ~Truthy(Get(q, "stationName"))

\* the condition under which a handler's validation finds the query wanting
invalidInput(op, q) ==
    CASE op = "route" -> ~Truthy(Get(q, "from")) \/ ~Truthy(Get(q, "to"))
      [] op = "stations" -> ~Truthy(Get(q, "query")) \/ Len(Trim(q.query)) < 3
      [] op = "nearby" ->
            \/ ~Truthy(Get(q, "lat")) \/ ~Truthy(Get(q, "lon"))
            \/ nearbyOutOfRange(q)
      [] op = "departures" -> ~Truthy(Get(q, "stationId")) /\ ~Truthy(Get(q, "stationName"))

\* what validation sends for an invalid query: <<>> when it sends nothing and
\* the handler carries on (the departures handler's check has an empty body)
rejection(op, q) ==
    CASE op = "route" -> <<Response(400, Failure("Start- und Zielort benoetigt."))>>
      [] op = "stations" ->
            <<Response(400, Failure("Suchbegriff fehlt oder ist zu kurz (mind. 3 Zeichen)."))>>
      [] op = "nearby" ->
            IF ~Truthy(Get(q, "lat")) \/ ~Truthy(Get(q, "lon"))
            THEN <<Response(400, NoObject)>>
            ELSE <<Response(400, Failure("Ungueltige Koordinaten oder Radius."))>>
      [] op = "departures" -> <<>>

\* cacheKey with the coordinates cut after the fourth decimal before toFixed
cacheKeyTruncating(op, q) ==
    LET cut(v) == IF v < 0 THEN 0 - (((0 - v) \div 10) * 10) ELSE (v \div 10) * 10
    IN  CASE op = "route" -> "transport:route:" \o ToStr(Get(q, "from")) \o ":" \o ToStr(Get(q, "to"))
          [] op = "stations" -> "transport:stations:" \o Trim(q.query)
          [] op = "nearby" ->
                "transport:stations:nearby:" \o toFixed4(cut(parseFloat(q.lat)[1])) \o ":"
                    \o toFixed4(cut(parseFloat(q.lon)[1])) \o ":" \o IntToStr(radiusOf(q)[1])
          [] op = "departures" ->
                "transport:departures:" \o ToStr(Or(Get(q, "stationId"), Get(q, "stationName")))

cacheKey(op, q) ==
    CASE op = "route" -> "transport:route:" \o ToStr(Get(q, "from")) \o ":" \o ToStr(Get(q, "to"))
      [] op = "stations" -> "transport:stations:" \o Trim(q.query)
      [] op = "nearby" ->
            "transport:stations:nearby:" \o toFixed4(parseFloat(q.lat)[1]) \o ":"
                \o toFixed4(parseFloat(q.lon)[1]) \o ":" \o IntToStr(radiusOf(q)[1])
      [] op = "departures" ->
            "transport:departures:" \o ToStr(Or(Get(q, "stationId"), Get(q, "stationName")))

\* servesCached with the stations handler's hit branch left without its return
servesCachedExceptStations(op) == op \in {"route", "nearby"}

\* whether the handler returns the cached value on a hit (the departures
\* handler's branch has an empty body)
servesCached(op) == op # "departures"

\* ttlOf with the departures handler given the stations handlers' expiry
ttlOfStationsForDepartures(op) ==
    CASE op = "route" -> 300
      [] op = "stations" -> 3600
      [] op = "nearby" -> 3600
      [] op = "departures" -> 3600

\* the expiry each handler passes to setInCache
ttlOf(op) ==
    CASE op = "route" -> 300
      [] op = "stations" -> 3600
      [] op = "nearby" -> 3600
      [] op = "departures" -> 60

\* classify with the test of efaData.error left out
classifyWithoutErrorTest(op, efaData) ==
    IF op = "route" /\ ambiguousLocation(efaData) THEN "ambiguous"
    ELSE IF op = "departures" /\ stopNotFound(efaData) THEN "notFound"
    ELSE "success"

\* classify with the departures handler testing efaData.error first
classifyErrorFirst(op, efaData) ==
    IF Truthy(Get(efaData, "error")) THEN "efaError"
    ELSE IF op = "route" /\ ambiguousLocation(efaData) THEN "ambiguous"
    ELSE IF op = "departures" /\ stopNotFound(efaData) THEN "notFound"
    ELSE "success"

\* what the handler does with a payload the provider delivered
classify(op, efaData) ==
    CASE op = "route" ->
            IF Truthy(Get(efaData, "error")) THEN "efaError"
            ELSE IF ambiguousLocation(efaData) THEN "ambiguous"
            ELSE "success"
      [] op \in {"stations", "nearby"} ->
            IF Truthy(Get(efaData, "error")) THEN "efaError" ELSE "success"
      [] op = "departures" ->
            IF stopNotFound(efaData) THEN "notFound"
            ELSE IF Truthy(Get(efaData, "error")) THEN "efaError"
            ELSE "success"

normalize(op, efaData) ==
    CASE op = "route" -> buildRoutes(efaData)
      [] op = "stations" -> buildStations(efaData)
      [] op = "nearby" -> buildNearbyStations(efaData)
      [] op = "departures" -> buildDepartures(efaData)

\* JSON.stringify of a result and JSON.parse of a stored text: the text is held
\* as the value it denotes (a field that is undefined is not in a result record)
stringify(result) == [json |-> result]
parse(text) == text.json

defaultMessage(op) ==
    CASE op = "route" -> "Route konnte nicht berechnet werden."
      [] op = "stations" -> "Haltestellen konnten nicht abgerufen werden."
      [] op = "nearby" -> "Nahegelegene Haltestellen konnten nicht abgerufen werden."
      [] op = "departures" -> "Abfahrtszeiten konnten nicht abgerufen werden."
efaMessage(op) ==
    IF op = "route" THEN "Fehler bei der Kommunikation mit dem Fahrplandienst."
    ELSE "Fehler bei Kommunikation mit EFA."

\* the status the catch block answers with.  thrown is what was thrown: the
\* handler's own Error("EFA API Error: ...") or an axios error, which carries
\* the provider's response when there was one
catchStatus(op, thrown) ==
    LET isEfaApiError == thrown.kind = "efaError"
        responseStatus == IF thrown.kind = "http" THEN thrown.status ELSE 0
    IN  IF op = "route" /\ responseStatus = 400 THEN 400
        ELSE IF isEfaApiError THEN 502
        ELSE IF responseStatus # 0 THEN responseStatus
        ELSE 500

catchResponse(op, thrown) ==
    Response(catchStatus(op, thrown),
             Failure(IF Truthy(Get(thrown, "message")) THEN thrown.message
                     ELSE IF thrown.kind = "efaError" THEN efaMessage(op)
                     ELSE defaultMessage(op)))

ambiguousResponse ==
    Response(400, [success |-> FALSE, message |-> "Start- oder Zielort ist mehrdeutig.",
                   errorCode |-> "AMBIGUOUS_LOCATION", routes |-> <<>>])
notFoundResponse == Response(404, Failure("Haltestelle nicht gefunden."))

(***************************************************************************)
(* The redis helpers.  Each returns to the handler what its await yields:  *)
(* threw says whether the awaited promise rejected.  ready is              *)
(* redisClient.isReady when the helper is called, ok whether the redis     *)
(* command then succeeds.                                                  *)
(***************************************************************************)
redisGet(key) == IF key \in DOMAIN cache THEN <<cache[key].val>> ELSE <<>>

\* getFromCache without its isReady test and its try block
getFromCacheUnguarded(key, ready, ok) ==
    [threw |-> ~(ready /\ ok), value |-> IF ready /\ ok THEN redisGet(key) ELSE <<>>]

getFromCache(key, ready, ok) ==
    [threw |-> FALSE, value |-> IF ready /\ ok THEN redisGet(key) ELSE <<>>]

\* setInCache without its isReady test and its try block
setInCacheUnguarded(ready, ok) == [threw |-> ~(ready /\ ok), written |-> ready /\ ok]

setInCache(ready, ok) == [threw |-> FALSE, written |-> ready /\ ok]

\* redisSet as an APPEND: the value is added to what the key already holds
redisAppend(key, value, expirationSeconds) ==
    [k \in DOMAIN cache \cup {key} |->
        IF k = key
        THEN [val |-> IF key \in DOMAIN cache
                      THEN [json |-> cache[key].val.json \o value.json] ELSE value,
              ttl |-> expirationSeconds, left |-> expirationSeconds]
        ELSE cache[k]]

\* redisClient.set(key, value, { EX: expirationSeconds }): the entry lives for
\* expirationSeconds; left is what remains of them
redisSet(key, value, expirationSeconds) ==
    [k \in DOMAIN cache \cup {key} |->
        IF k = key
        THEN [val |-> value, ttl |-> expirationSeconds, left |-> expirationSeconds]
        ELSE cache[k]]

(***************************************************************************)
(* The queries and provider answers the model draws from.  An answer is    *)
(* kept in a request's record by its name in these tables.                 *)
(***************************************************************************)
RouteQueries ==
    {[from |-> "Bozen", to |-> "Meran"], [from |-> "", to |-> "Meran"], [from |-> "Bozen"]}
StationQueries ==
    {[query |-> "Boz"], [query |-> "Meran "], [query |-> "Bo "], NoObject}
NearbyQueries ==
    {[lat |-> "46.4983", lon |-> "11.3548"],
     [lat |-> "46.49834", lon |-> "11.3548", radius |-> "1000"],
     [lat |-> "46.4983", lon |-> "11.3548", radius |-> "0"],
     [lat |-> "46.4983", lon |-> "11.3548", radius |-> "-5"],
     [lat |-> "91", lon |-> "11.3548"],
     [lat |-> "46.4983", lon |-> "-180.5"],
     [lat |-> "abc", lon |-> "11.3548"],
     [lon |-> "11.3548"]}
DepartureQueries == {[stationId |-> "66000468"], NoObject}

Queries(op) ==
    CASE op = "route" -> RouteQueries
      [] op = "stations" -> StationQueries
      [] op = "nearby" -> NearbyQueries
      [] op = "departures" -> DepartureQueries

\* axios.get rejects: no response at all, or a response with an error status
TransportFailures ==
    {[kind |-> "network"],
     [kind |-> "http", status |-> 400, message |-> "Bad Request"],
     [kind |-> "http", status |-> 404]}

Code(value) == [name |-> "code", value |-> value]
DateTime(hour, minute) ==
    [year |-> "2024", month |-> "3", day |-> "1", hour |-> hour, minute |-> minute]
Stop(name, hour, minute) ==
    [name |-> name, dateTime |-> DateTime(hour, minute), ref |-> [coords |-> "11.35,46.50"]]
BusLeg ==
    [points |-> Arr(<<Stop("Bozen", "9", "0"), Stop("Terlan", "9", "10")>>),
     mode |-> [name |-> "Bus", number |-> "201", operator |-> [name |-> "SASA"]]]
WalkLeg ==
    [points |-> Arr(<<Stop("Terlan", "9", "15"), Stop("Meran", "9", "30")>>),
     type |-> "WALK", duration |-> Str("14")]
Trip == [duration |-> Str("00:30"), interchanges |-> Str("1"), legs |-> Arr(<<BusLeg, WalkLeg>>)]
DirectTrip == [duration |-> Str("00:10"), legs |-> Obj(BusLeg)]
Ambiguous == [message |-> Arr(<<Code("-8011")>>)]

RoutePayloads ==
    [technicalError |-> [error |-> "internal"],
     errorAndAmbiguous |-> [error |-> "internal", origin |-> Ambiguous],
     ambiguousOrigin |-> [origin |-> Ambiguous],
     ambiguousDestination |->
        [origin |-> [message |-> Arr(<<Code("-8010")>>)], destination |-> Ambiguous],
     ambiguousEmptyTrips |-> [origin |-> Ambiguous, trips |-> Arr(<<>>)],
     ambiguousWithTrip |-> [destination |-> Ambiguous, trips |-> Obj(DirectTrip)],
     trips |-> [trips |-> Arr(<<Trip>>)],
     nothing |-> NoObject]

BozenPoint ==
    [name |-> "Bozen", anyType |-> "stop",
     ref |-> [id |-> "66000468", coords |-> "11.35,46.50", place |-> "Bozen"]]
BodenPoint == [name |-> "Bozner Boden", locality |-> "Bozen"]
StationPayloads ==
    [technicalError |-> [error |-> "internal"],
     points |-> [stopFinder |-> [points |-> Arr(<<BozenPoint, BodenPoint>>)]],
     nothing |-> NoObject]

Near(point, distance) == [point EXCEPT !.ref = [coords |-> "11.35,46.50", distance |-> distance]]
NearbyPayloads ==
    [technicalError |-> [error |-> "internal"],
     points |-> [stopFinder |-> [points |->
                    Arr(<<Near(BozenPoint, Str("300")), Near(BozenPoint, Str("20"))>>)]],
     nothing |-> NoObject]

Departure(hour, minute, realMinute, delay) ==
    [dateTime |-> DateTime(hour, minute), realDateTime |-> DateTime(hour, realMinute),
     delay |-> delay, servingLine |-> [number |-> "201", direction |-> "Meran", name |-> "Bus"]]
DeparturePayloads ==
    [technicalError |-> [error |-> "internal"],
     stopUnknown |-> [departureMonitor |-> [message |-> Arr(<<Code("-3010")>>)]],
     errorAndStopUnknown |->
        [error |-> "internal", departureMonitor |-> [message |-> Obj([code |-> Num(-3011)])]],
     departures |->
        [departureMonitor |-> [message |-> Arr(<<Code("-4050")>>)],
         departureList |-> Arr(<<Departure("9", "0", "4", Num(0)),
                                 Departure("9", "5", "5", Str("0"))>>)],
     nothing |-> NoObject]

Payloads(op) ==
    CASE op = "route" -> RoutePayloads
      [] op = "stations" -> StationPayloads
      [] op = "nearby" -> NearbyPayloads
      [] op = "departures" -> DeparturePayloads

Replies(op) == TransportFailures \cup {[kind |-> "data", data |-> d] : d \in DOMAIN Payloads(op)}

(***************************************************************************)
(* A request.  pc is where its handler is suspended: "lookup" at the await *)
(* of getFromCache, "fetch" at the await of axios.get, "store" at the      *)
(* await of setInCache.  resp lists the responses it has sent, path the    *)
(* branch that sent the last one; after holds the requests that had been   *)
(* answered when this one arrived, age the seconds since its own answer.   *)
(* key and result are the handler's cacheKey and its routes, stations or   *)
(* departures, which it computes before it awaits the cache.               *)
(***************************************************************************)
Idle ==
    [pc |-> "idle", op |-> "none", query |-> NoObject, after |-> {}, age |-> 0,
     key |-> "", lookup |-> "none", cached |-> <<>>,
     reply |-> [kind |-> "none"],
     result |-> <<>>, store |-> "none",
     resp |-> <<>>, path |-> "none"]

\* response.data of the provider's answer a request has received
responseData(rec) == Payloads(rec.op)[rec.reply.data]

send(rec, response, path) ==
    [rec EXCEPT !.pc = "done", !.resp = Append(@, response), !.path = path]

\* res.statusCode: 200 until a status has been set
statusCode(rec) == IF rec.resp = <<>> THEN 200 ELSE rec.resp[Len(rec.resp)].status

\* caught with the departures handler's 404 guard reading the provider's status
\* (error.response.status) instead of res.statusCode
caughtOnProvider404(rec, thrown) ==
    IF rec.op = "departures" /\ thrown.kind = "http" /\ thrown.status = 404
    THEN [rec EXCEPT !.pc = "done"]
    ELSE send(rec, catchResponse(rec.op, thrown), "catch")

\* the catch block of a handler
caught(rec, thrown) ==
    IF rec.op = "departures" /\ statusCode(rec) = 404
    THEN [rec EXCEPT !.pc = "done"]
    ELSE send(rec, catchResponse(rec.op, thrown), "catch")

\* the handler from the return of getFromCache to its next await
afterLookup(rec, got) ==
    IF got.threw THEN caught(rec, [kind |-> "cacheError"])
    ELSE IF got.value # <<>> /\ servesCached(rec.op)
    THEN send([rec EXCEPT !.cached = got.value],
              Response(200, stringify(parse(got.value[1]))), "cached")
    ELSE [rec EXCEPT !.pc = "fetch", !.cached = got.value]

\* the handler from the return of setInCache to its end
afterStore(rec, put) ==
    IF put.threw THEN caught(rec, [kind |-> "cacheError"])
    ELSE send(rec, Response(200, stringify(rec.result)), "fresh")

\* the handler from the return of axios.get to its next await
afterFetch(rec, reply, ready) ==
    LET seen == [rec EXCEPT !.reply = reply]
        class == classify(rec.op, responseData(seen))
    IN  IF reply.kind # "data" THEN caught(seen, reply)
        ELSE CASE class = "notFound" -> send(seen, notFoundResponse, "notFound")
               [] class = "efaError" -> caught(seen, [kind |-> "efaError"])
               [] class = "ambiguous" -> send(seen, ambiguousResponse, "ambiguous")
               [] class = "success" ->
                    LET built == [seen EXCEPT !.result = normalize(rec.op, responseData(seen))]
                    IN  IF ready THEN [built EXCEPT !.pc = "store"]
                        ELSE afterStore([built EXCEPT !.store = "notReady"],
                                        setInCache(FALSE, TRUE))

\* the handler from the arrival of the request to its first await
received(rec, ready) ==
    IF invalidInput(rec.op, rec.query) /\ rejection(rec.op, rec.query) # <<>>
    THEN send(rec, rejection(rec.op, rec.query)[1], "validation")
    ELSE LET keyed == [rec EXCEPT !.key = cacheKey(rec.op, rec.query)]
         IN  IF ready THEN [keyed EXCEPT !.pc = "lookup"]
             ELSE afterLookup([keyed EXCEPT !.lookup = "notReady"],
                              getFromCache(keyed.key, FALSE, TRUE))

(***************************************************************************)
(* The state machine.                                                      *)
(***************************************************************************)
(***************************************************************************)
(* Ride sharing (backend/routes/rideshare.js, backend/db.sql).  The rides  *)
(* table holds one ride, offered by user 1; bookings is the bookings       *)
(* table, a booking request is suspended at the await of its SELECT or of  *)
(* its INSERT.                                                             *)
(***************************************************************************)
Users == 1..3
Bookers == 1..MaxBookings
rides == [id \in {1} |-> [driver_id |-> 1, seats |-> 2]]

BookIdle == [pc |-> "idle", userId |-> 0, id |-> 0, seats |-> 0, available_seats |-> 0,
             status |-> <<>>]
NoBookings == [bookings |-> <<>>, request |-> [r \in Bookers |-> BookIdle]]

\* COALESCE(SUM(b.seats), 0) over the bookings of a ride
RECURSIVE bookedSeats(_, _)
bookedSeats(bookings, id) ==
    IF bookings = <<>> THEN 0
    ELSE (IF Head(bookings).ride_id = id THEN Head(bookings).seats ELSE 0)
         + bookedSeats(Tail(bookings), id)

\* rideQuery: no row when the ride does not exist, else its available_seats
rideQuery(bookings, id) ==
    IF id \notin DOMAIN rides THEN <<>>
    ELSE <<[id |-> id, driver_id |-> rides[id].driver_id, seats |-> rides[id].seats,
            available_seats |-> rides[id].seats - bookedSeats(bookings, id)]>>

\* The map page (frontend/src/pages/Map.tsx): no search issued yet
NoSearches == [stationSearchQuery |-> "", stationSuggestions |-> <<>>, searches |-> <<>>]

\* no normalizer is applied on its own
NoProbe == [fn |-> "none", pc |-> "done", in |-> NoObject, out |-> NoObject]

Init ==
    /\ redisReady \in BOOLEAN
    /\ cache = [k \in {} |-> 0]
    /\ call = [c \in Calls |-> Idle]
    /\ probe = NoProbe
    /\ rideshare = NoBookings
    /\ page = NoSearches

Started == {c \in Calls : call[c].pc # "idle"}
Finished == {c \in Calls : call[c].pc = "done"}

\* A request arrives.  Requests are numbered in the order of their arrival,
\* and one behaviour follows the requests to one endpoint.
Receive(c, op, q) ==
    /\ call[c].pc = "idle"
    /\ \A d \in Calls : d < c => d \in Started
    /\ \A d \in Started : call[d].op = op
    /\ call' = [call EXCEPT ![c] =
                  received([Idle EXCEPT !.op = op, !.query = q, !.after = Finished],
                           redisReady)]
    /\ UNCHANGED <<redisReady, cache, probe, rideshare, page>>

\* redis answers the GET, or the command fails
CacheGetReply(c, ok) ==
    /\ call[c].pc = "lookup"
    /\ call' = [call EXCEPT ![c] =
                  afterLookup([@ EXCEPT !.lookup = IF ok THEN "ok" ELSE "failed"],
                              getFromCache(@.key, TRUE, ok))]
    /\ UNCHANGED <<redisReady, cache, probe, rideshare, page>>

\* the provider answers, or the request fails
ProviderReply(c) ==
    /\ call[c].pc = "fetch"
    /\ \E reply \in Replies(call[c].op) :
          call' = [call EXCEPT ![c] = afterFetch(@, reply, redisReady)]
    /\ UNCHANGED <<redisReady, cache, probe, rideshare, page>>

\* redis answers the SET, or the command fails
CacheSetReply(c, ok) ==
    /\ call[c].pc = "store"
    /\ cache' = IF setInCache(TRUE, ok).written
                THEN redisSet(call[c].key, stringify(call[c].result), ttlOf(call[c].op))
                ELSE cache
    /\ call' = [call EXCEPT ![c] =
                  afterStore([@ EXCEPT !.store = IF ok THEN "ok" ELSE "failed"],
                             setInCache(TRUE, ok))]
    /\ UNCHANGED <<redisReady, probe, rideshare, page>>

\* the connection to redis is lost, and found again
RedisDown ==
    /\ redisReady
    /\ redisReady' = FALSE
    /\ UNCHANGED <<cache, call, probe, rideshare, page>>
RedisUp ==
    /\ ~redisReady
    /\ redisReady' = TRUE
    /\ UNCHANGED <<cache, call, probe, rideshare, page>>

\* time passes, which shows only while redis holds an entry: redis drops the
\* entries whose time has run out
Tick ==
    /\ DOMAIN cache # {}
    /\ cache' = [k \in {j \in DOMAIN cache : cache[j].left > TickSeconds} |->
                    [cache[k] EXCEPT !.left = @ - TickSeconds]]
    /\ call' = [c \in Calls |->
                  IF call[c].pc = "done" THEN [call[c] EXCEPT !.age = @ + TickSeconds]
                  ELSE call[c]]
    /\ UNCHANGED <<redisReady, probe, rideshare, page>>

Next ==
    \/ \E c \in Calls, op \in Endpoints : \E q \in Queries(op) : Receive(c, op, q)
    \/ \E c \in Calls, ok \in BOOLEAN : CacheGetReply(c, ok)
    \/ \E c \in Calls : ProviderReply(c)
    \/ \E c \in Calls, ok \in BOOLEAN : CacheSetReply(c, ok)
    \/ RedisDown
    \/ RedisUp
    \/ Tick

Spec == Init /\ [][Next]_vars

\* One request on its own.  Its handler runs on whenever it can, and redis
\* answers every command, by a value or by an error.  axios.get is called
\* without a timeout, so nothing obliges a request that waits for the provider
\* to go on.
OneQueryNext == Next /\ \A c \in Calls \ {1} : call'[c] = Idle

FairSpec ==
    /\ Init /\ [][OneQueryNext]_vars
    /\ WF_vars(\E ok \in BOOLEAN : CacheGetReply(1, ok))
    /\ WF_vars(\E ok \in BOOLEAN : CacheSetReply(1, ok))

(***************************************************************************)
(* What a request has done, and the terminal state of the orchestrator it  *)
(* ended in, as its caller sees it.                                        *)
(***************************************************************************)
lastResponse(rec) == rec.resp[Len(rec.resp)]
lookedUp(rec) == rec.pc = "lookup" \/ rec.lookup # "none"
fetched(rec) == rec.pc = "fetch" \/ rec.reply.kind # "none"
stored(rec) == rec.pc = "store" \/ rec.store # "none"

\* the kind of error a response of the catch block shows its caller
errorKind(response) ==
    CASE response.status = 400 -> "RejectedInput"
      [] response.status = 404 -> "RejectedNotFound"
      [] OTHER -> "UpstreamUnavailable"

Terminal(rec) ==
    IF rec.pc # "done" \/ rec.resp = <<>> THEN "none"
    ELSE CASE rec.path = "validation" -> "RejectedInput"
           [] rec.path = "cached" -> "ServeCached"
           [] rec.path = "fresh" -> "ServeFresh"
           [] rec.path = "ambiguous" -> "RejectedAmbiguous"
           [] rec.path = "notFound" -> "RejectedNotFound"
           [] rec.path = "catch" -> errorKind(lastResponse(rec))

(***************************************************************************)
(* C1: for each of the four operations, a request with valid input whose   *)
(* cache lookup returned a stored value ends in ServeCached: it answers    *)
(* with the stored value and performs no provider fetch.                   *)
(***************************************************************************)
C1_CacheHitServesCached ==
    \A c \in Calls :
        (call[c].cached # <<>> /\ ~invalidInput(call[c].op, call[c].query)) =>
            /\ Terminal(call[c]) = "ServeCached"
            /\ ~fetched(call[c])
            /\ lastResponse(call[c]) = Response(200, stringify(parse(call[c].cached[1])))

(***************************************************************************)
(* C2: with the cache available, two identical searchStations requests     *)
(* made one after the other within the TTL window issue exactly one        *)
(* provider call in total, and the second returns the content of the       *)
(* first.                                                                  *)
(***************************************************************************)
C2_Identical(c1, c2) ==
    /\ c1 \in call[c2].after
    /\ call[c1].op = "stations" /\ call[c2].op = "stations"
    /\ call[c1].query = call[c2].query

C2_ProviderCalls(c1, c2) == Cardinality({c \in {c1, c2} : fetched(call[c])})

C2_FirstStored(c1, c2) ==
    /\ C2_Identical(c1, c2)
    /\ Terminal(call[c1]) = "ServeFresh" /\ call[c1].store = "ok"
    /\ call[c1].age < ttlOf("stations")
    /\ \A d \in Calls \ {c1} :
          call[d].store = "ok" => call[d].key # call[c1].key

C2_ServedFromCache(c1, c2) ==
    /\ Terminal(call[c2]) = "ServeCached"
    /\ C2_ProviderCalls(c1, c2) = 1
    /\ lastResponse(call[c2]) = lastResponse(call[c1])

C3_Degraded(rec) == rec.lookup \in {"notReady", "failed"}
C3_HealthyMiss(rec) == rec.lookup = "ok" /\ rec.cached = <<>>

C3_LookupFailureIsAMiss ==
    \A c \in Calls :
        C3_Degraded(call[c]) =>
            /\ call[c].cached = <<>>
            /\ fetched(call[c])
            /\ \A d \in Calls :
                  ( /\ C3_HealthyMiss(call[d])
                    /\ call[d].op = call[c].op /\ call[d].query = call[c].query
                    /\ call[d].reply = call[c].reply
                    /\ call[d].pc = "done" /\ call[c].pc = "done" )
                  => /\ Terminal(call[d]) = Terminal(call[c])
                     /\ call[d].resp = call[c].resp

C3_Witness ==
    \E c, d \in Calls :
        /\ call[c].lookup = "failed" /\ C3_HealthyMiss(call[d])
        /\ call[d].query = call[c].query /\ call[d].reply = call[c].reply
        /\ Terminal(call[c]) = "ServeFresh" /\ Terminal(call[d]) = "ServeFresh"

(***************************************************************************)
(* C4: when the cache store step fails or is skipped (client not ready, or *)
(* set throws), the request still ends in ServeFresh and answers with the  *)
(* freshly normalized result.                                              *)
(***************************************************************************)
C4_StoreFailureServesFresh ==
    \A c \in Calls :
        call[c].store \in {"notReady", "failed"} =>
            /\ Terminal(call[c]) = "ServeFresh"
            /\ call[c].resp =
                  <<Response(200, stringify(normalize(call[c].op, responseData(call[c]))))>>

C4_Witness ==
    \E c, d \in Calls :
        /\ call[c].store = "failed" /\ Terminal(call[c]) = "ServeFresh"
        /\ call[d].store = "notReady" /\ Terminal(call[d]) = "ServeFresh"

(***************************************************************************)
(* C5: searchRoute with an empty from or to, searchStations with a trimmed *)
(* query shorter than 3 characters, and searchNearbyStations with a        *)
(* latitude outside [-90,90], a longitude outside [-180,180], a            *)
(* non-numeric value or a radius <= 0 end in RejectedInput without a cache *)
(* lookup, a provider fetch or a cache write.                              *)
(***************************************************************************)
C5_Empty(q, f) == ~Has(q, f) \/ q[f] = ""
C5_Outside(s, limit) ==
    IsNaN(parseFloat(s)) \/ parseFloat(s)[1] > limit * Scale \/ parseFloat(s)[1] < 0 - limit * Scale

C5_Invalid(op, q) ==
    CASE op = "route" -> C5_Empty(q, "from") \/ C5_Empty(q, "to")
      [] op = "stations" -> Has(q, "query") /\ Len(Trim(q.query)) < 3
      [] op = "nearby" ->
            /\ Has(q, "lat") /\ Has(q, "lon")
            /\ \/ C5_Outside(q.lat, 90)
               \/ C5_Outside(q.lon, 180)
               \/ Has(q, "radius") /\ (IsNaN(parseInt(q.radius)) \/ parseInt(q.radius)[1] <= 0)
      [] OTHER -> FALSE

C6_DeparturesWithoutStationRejected ==
    \A c \in Calls :
        ( /\ call[c].op = "departures"
          /\ C5_Empty(call[c].query, "stationId") /\ C5_Empty(call[c].query, "stationName") )
        => /\ Terminal(call[c]) = "RejectedInput"
           /\ ~lookedUp(call[c]) /\ ~fetched(call[c])

(***************************************************************************)
(* C7: for getDepartures, a payload whose departure-monitor message        *)
(* carries code -3010 or -3011 ends in RejectedNotFound, also when the     *)
(* payload carries a top-level error field; it is never answered as        *)
(* UpstreamUnavailable.                                                    *)
(***************************************************************************)
C7_Delivered(rec) == rec.op = "departures" /\ rec.reply.kind = "data"

C7_StopNotFoundFirst ==
    \A c \in Calls :
        (C7_Delivered(call[c]) /\ stopNotFound(responseData(call[c]))) =>
            /\ Terminal(call[c]) = "RejectedNotFound"
            /\ call[c].resp = <<notFoundResponse>>
            /\ ~stored(call[c])

C7_Witness ==
    \E c \in Calls :
        /\ C7_Delivered(call[c])
        /\ stopNotFound(responseData(call[c])) /\ Has(responseData(call[c]), "error")
        /\ Terminal(call[c]) = "RejectedNotFound"

(***************************************************************************)
(* C8: for searchRoute, a payload with no trips in which the origin or the *)
(* destination message list contains {name: "code", value: "-8011"} ends   *)
(* in RejectedAmbiguous, whichever endpoint is ambiguous; when trips are   *)
(* present the same codes do not reject the request.                       *)
(***************************************************************************)
C8_Delivered(rec) == rec.op = "route" /\ rec.reply.kind = "data"

C8_ListsCode(efaData, endpoint) ==
    /\ Has(efaData, endpoint) /\ Has(efaData[endpoint], "message")
    /\ IsArray(efaData[endpoint].message)
    /\ \E i \in 1..Len(efaData[endpoint].message.arr) :
          efaData[endpoint].message.arr[i] = [name |-> "code", value |-> "-8011"]

C8_Codes(efaData) == C8_ListsCode(efaData, "origin") \/ C8_ListsCode(efaData, "destination")

C9_TransportFailureIsUpstreamUnavailable ==
    \A c \in Calls :
        call[c].reply.kind \in {"network", "http"} =>
            /\ Terminal(call[c]) = "UpstreamUnavailable"
            /\ lastResponse(call[c]).status \notin {400, 404}

(***************************************************************************)
(* C10: every request reaches a terminal state even when the provider      *)
(* never answers: a request does not stay suspended in the provider fetch. *)
(***************************************************************************)
C10_EveryQueryTerminates ==
    \A c \in Calls : (call[c].pc # "idle") ~> (call[c].pc = "done")

(***************************************************************************)
(* C11: every cache entry is written with the TTL of its endpoint: 300 s   *)
(* for route search, 3600 s for name search and for proximity search, 60 s *)
(* for departures; no entry has another TTL or no expiry.                  *)
(***************************************************************************)
C11_StartsWith(s, prefix) == Len(s) >= Len(prefix) /\ SubSeq(s, 1, Len(prefix)) = prefix

C11_Ttl(key) ==
    IF C11_StartsWith(key, "transport:route:") THEN 300
    ELSE IF C11_StartsWith(key, "transport:stations:") THEN 3600
    ELSE IF C11_StartsWith(key, "transport:departures:") THEN 60
    ELSE 0

C11_EveryEntryHasItsTtl ==
    \A k \in DOMAIN cache :
        /\ cache[k].ttl = C11_Ttl(k)
        /\ cache[k].left \in 1..cache[k].ttl

C11_Witness ==
    \E k \in DOMAIN cache :
        C11_StartsWith(k, "transport:departures:") /\ cache[k].left = 60

(***************************************************************************)
(* The normalizers on their own.  A probe holds the input of one of them,  *)
(* drawn from the sets below, and then its result; the router stands      *)
(* still.  in and out are records, so that inputs of different shapes can  *)
(* be told apart.                                                          *)
(***************************************************************************)
MaxMinute == 30    \* the latest minute of the hour a probed leg departs or arrives at
ProbeMinutes == {m \in 0..MaxMinute : m % 5 = 0}

Probe(fn, in) == [fn |-> fn, pc |-> "ready", in |-> in, out |-> NoObject]

\* a trip of two legs: the first by bus, the second by bus or on foot, on foot
\* with or without the provider's own duration figure
At(minute) == [name |-> "Halt", dateTime |-> DateTime("9", IntToStr(minute))]
Ride(dep, arr) ==
    [points |-> Arr(<<At(dep), At(arr)>>), mode |-> [name |-> "Bus", number |-> "201"]]
Walk(dep, arr) == [points |-> Arr(<<At(dep), At(arr)>>), type |-> "WALK"]
WalkFigures == {Num(0 - 3), Num(0), Num(7), Str("14")}
SecondLegs(dep, arr) ==
    {Ride(dep, arr), Walk(dep, arr)}
        \cup {[Walk(dep, arr) EXCEPT !.mode = [type |-> "FOOTPATH"]]}
        \cup {[type |-> "WALK", points |-> Walk(dep, arr).points, duration |-> f] :
                f \in WalkFigures}
RouteProbes ==
    {Probe("route", [dep1 |-> 0, arr1 |-> 10, dep2 |-> dep2, arr2 |-> arr2,
                     trip |-> [legs |-> Arr(<<Ride(0, 10), leg2>>)]]) :
        <<dep2, arr2, leg2>> \in
            UNION {{<<d, a, l>> : l \in SecondLegs(d, a)} : <<d, a>> \in ProbeMinutes \X ProbeMinutes}}

\* trips of one leg: the shapes of leg.points, the places an operator name may
\* be found in, and the provider's own duration; total is the minutes the
\* leg's timestamps span
TripProbes ==
    LET Maybe(f, values) == {NoObject} \cup {[x \in {f} |-> v] : v \in values}
        Join(a, b) == [f \in DOMAIN a \cup DOMAIN b |-> IF f \in DOMAIN a THEN a[f] ELSE b[f]]
        Shapes ==
            {<<Ride(0, 10), 10>>, <<Ride(5, 5), 0>>,
             <<[points |-> Arr(<<[name |-> "Bozen"], [name |-> "Meran"]>>)], 0>>,
             <<[points |-> Arr(<<At(0)>>)], 0>>,
             <<[points |-> Obj(At(0))], 0>>,
             <<[mode |-> [name |-> "Bus"]], 0>>}
        Operated ==
            {<<Join([points |-> Ride(0, 10).points, mode |-> Join([name |-> "Bus"], mo)],
                    IF Join(so, sn) = NoObject THEN NoObject ELSE [servingLine |-> Join(so, sn)]),
               10>> :
                so \in Maybe("operator", {[name |-> "SAD"], [name |-> ""], NoObject}),
                mo \in Maybe("operator", {[name |-> "SASA"]}),
                sn \in Maybe("name", {"Linie 201"})}
    IN  {Probe("trip", [total |-> l[2], trip |-> Join([legs |-> Arr(<<l[1]>>)], d)]) :
            l \in Shapes \cup Operated,
            d \in Maybe("duration", {Str("00:30"), Str("--"), Str(""), Num(0)})}

ApplyRoute ==
    /\ probe.fn \in {"route", "trip"} /\ probe.pc = "ready"
    /\ probe' = [probe EXCEPT !.pc = "done", !.out = [route |-> buildRoute(probe.in.trip)]]
    /\ UNCHANGED <<redisReady, cache, call, rideshare, page>>

\* two Dates, each null or some seconds around a whole minute
DurationProbes ==
    LET Dates == {<<>>} \cup {<<m * 60 + d>> : m \in {0, 1, 10}, d \in {0, 29, 30}}
    IN  {Probe("duration", [startDate |-> a, endDate |-> b]) : a \in Dates, b \in Dates}

ApplyDuration ==
    /\ probe.fn = "duration" /\ probe.pc = "ready"
    /\ probe' = [probe EXCEPT !.pc = "done",
                    !.out = [minutes |-> calculateDurationMinutes(probe.in.startDate,
                                                                  probe.in.endDate)]]
    /\ UNCHANGED <<redisReady, cache, call, rideshare, page>>

\* dateTime objects: each field absent or one of a few strings
DateTimeProbes ==
    LET Maybe(f, values) == {NoObject} \cup {[x \in {f} |-> v] : v \in values}
        Join(a, b) == [f \in DOMAIN a \cup DOMAIN b |-> IF f \in DOMAIN a THEN a[f] ELSE b[f]]
    IN  {Probe("dateTime", [efaDateTime |-> Join(y, Join(mo, Join(d, Join(h, mi))))]) :
            y \in Maybe("year", {"2024", "2023"}),
            mo \in Maybe("month", {"2", "04", "13", "xx"}),
            d \in Maybe("day", {"1", "29", "30", "31", "32"}),
            h \in Maybe("hour", {"9", "25"}),
            mi \in Maybe("minute", {"5", "60"})}

ApplyDateTime ==
    /\ probe.fn = "dateTime" /\ probe.pc = "ready"
    /\ probe' = [probe EXCEPT !.pc = "done",
                    !.out = [date |-> parseEfaDateTime(probe.in.efaDateTime)]]
    /\ UNCHANGED <<redisReady, cache, call, rideshare, page>>

\* point references: coords a string, or a JSON number kept under coordsNumber
CoordsProbes ==
    {Probe("coords", [pointRef |-> r]) :
        r \in {NoObject} \cup {[coordsNumber |-> n] : n \in {0, 11}}
              \cup {[coords |-> c] : c \in {"11.35,46.50", "-11.5,46", "abc,46.50", "11.35,abc",
                                            "11.35", "1,2,3", "", ",", "11.35,",
                                            "11.35,46.50abc", "200.0,95.0"}}}

\* the outcome of calling extractCoords: a number has no split method, so a
\* coords that is a number other than 0 raises a TypeError
extractCoordsCall(pointRef) ==
    IF Has(pointRef, "coordsNumber")
    THEN (IF pointRef.coordsNumber = 0 THEN [value |-> <<>>] ELSE [threw |-> "TypeError"])
    ELSE [value |-> extractCoords(pointRef)]

ApplyCoords ==
    /\ probe.fn = "coords" /\ probe.pc = "ready"
    /\ probe' = [probe EXCEPT !.pc = "done", !.out = extractCoordsCall(probe.in.pointRef)]
    /\ UNCHANGED <<redisReady, cache, call, rideshare, page>>

\* stop-finder points with the packed coordinates the provider may send
StationProbes ==
    {Probe("station", [point |-> [name |-> "Bozen, Bahnhof", locality |-> "Bozen",
                                  anyType |-> "stop",
                                  ref |-> [id |-> "66000468", coords |-> c]]]) :
        c \in {"11.35,46.50", "-180,-90", "180.0,90.0", "200.0,95.0", "11.35,90.5", "-180.5,46.50"}}

ApplyStation ==
    /\ probe.fn = "station" /\ probe.pc = "ready"
    /\ probe' = [probe EXCEPT !.pc = "done", !.out = [station |-> buildStation(probe.in.point)]]
    /\ UNCHANGED <<redisReady, cache, call, rideshare, page>>

\* departures at 9:scheduled, really at 9:real, with the provider's delay figure
DepartureProbes ==
    {Probe("departure", [scheduled |-> m, real |-> r,
                         dep |-> Departure("9", IntToStr(m), IntToStr(r), d)]) :
        m \in {0, 4, 9}, r \in {0, 4, 9},
        d \in {Num(0), Num(3), Num(0 - 2), Str("0"), Str("5")}}

ApplyDeparture ==
    /\ probe.fn = "departure" /\ probe.pc = "ready"
    /\ probe' = [probe EXCEPT !.pc = "done", !.out = [departure |-> buildDeparture(probe.in.dep)]]
    /\ UNCHANGED <<redisReady, cache, call, rideshare, page>>

\* two valid requests, each an endpoint with its query parameters
KeyProbes ==
    LET Requests ==
            {[op |-> "route", query |-> q] :
                q \in {[from |-> "Bozen", to |-> "Meran"], [from |-> "Meran", to |-> "Bozen"],
                       [from |-> "Bozen:Bahnhof", to |-> "Meran"],
                       [from |-> "Bozen", to |-> "Bahnhof:Meran"]}}
            \cup {[op |-> "stations", query |-> [query |-> t]] :
                    t \in {"Boz", " Boz ", "Meran", "nearby:46.4983:11.3548:1000"}}
            \cup {[op |-> "nearby", query |-> q] :
                    q \in {n \in NearbyQueries : ~invalidInput("nearby", n)}
                          \cup {[lat |-> "46.49836", lon |-> "11.3548"],
                                [lat |-> "46.4984", lon |-> "11.3548"],
                                [lat |-> "46.4983", lon |-> "-11.35476"],
                                [lat |-> "46.4983", lon |-> "-11.3547"],
                                [lat |-> "46.4983", lon |-> "11.3548", radius |-> "500"]}}
            \cup {[op |-> "departures", query |-> q] :
                    q \in {[stationId |-> "66000468"], [stationName |-> "Meran"]}}
    IN  {Probe("keys", [first |-> a, second |-> b]) : a \in Requests, b \in Requests}

\* the cacheKey each of the two handlers computes
ApplyKeys ==
    /\ probe.fn = "keys" /\ probe.pc = "ready"
    /\ probe' = [probe EXCEPT !.pc = "done",
                    !.out = [first |-> cacheKey(probe.in.first.op, probe.in.first.query),
                             second |-> cacheKey(probe.in.second.op, probe.in.second.query)]]
    /\ UNCHANGED <<redisReady, cache, call, rideshare, page>>

\* stop-finder answers of three points, each with or without a distance; the
\* distances of one answer are all JSON numbers or all strings
NearbyProbes ==
    LET Point(n, d) ==
            [name |-> n, ref |-> IF d = NoObject THEN [id |-> n] ELSE [id |-> n, distance |-> d[1]]]
        Answers(distances) ==
            {[stopFinder |-> [points |-> Arr(<<Point("a", x), Point("b", y), Point("c", z)>>)]] :
                x \in distances, y \in distances, z \in distances}
    IN  {Probe("nearby", [efaData |-> e]) :
            e \in Answers({NoObject, <<Num(0)>>, <<Num(20)>>, <<Num(300)>>})
                  \cup Answers({NoObject, <<Str("0")>>, <<Str("20")>>, <<Str("300")>>})}

ApplyNearby ==
    /\ probe.fn = "nearby" /\ probe.pc = "ready"
    /\ probe' = [probe EXCEPT !.pc = "done",
                    !.out = [stations |-> buildNearbyStations(probe.in.efaData)]]
    /\ UNCHANGED <<redisReady, cache, call, rideshare, page>>

NormInit ==
    /\ redisReady = TRUE
    /\ cache = [k \in {} |-> 0]
    /\ call = [c \in Calls |-> Idle]
    /\ rideshare = NoBookings
    /\ page = NoSearches
    /\ \/ probe \in RouteProbes
       \/ probe \in TripProbes
       \/ probe \in DurationProbes
       \/ probe \in DateTimeProbes
       \/ probe \in CoordsProbes
       \/ probe \in StationProbes
       \/ probe \in DepartureProbes
       \/ probe \in KeyProbes
       \/ probe \in NearbyProbes

NormNext ==
    \/ ApplyRoute
    \/ ApplyDuration
    \/ ApplyDateTime
    \/ ApplyCoords
    \/ ApplyStation
    \/ ApplyDeparture
    \/ ApplyKeys
    \/ ApplyNearby

NormSpec == NormInit /\ [][NormNext]_vars

(***************************************************************************)
(* router.post('/:id/book'): the handler in its three steps.               *)
(***************************************************************************)
BookDone(rec, status) == [rec EXCEPT !.pc = "done", !.status = <<status>>]

\* the request arrives (auth has set req.user.id) and the SELECT is sent
Book(r, userId, id, seats) ==
    /\ rideshare.request[r].pc = "idle"
    /\ \A q \in Bookers : q < r => rideshare.request[q].pc # "idle"
    /\ rideshare' = [rideshare EXCEPT !.request[r] =
                        [BookIdle EXCEPT !.pc = "select", !.userId = userId,
                                         !.id = id, !.seats = seats]]
    /\ UNCHANGED <<redisReady, cache, call, probe, page>>

\* the SELECT answers, or fails: the checks, then the INSERT is sent
BookSelectReply(r, ok) ==
    LET rec == rideshare.request[r]
        rows == rideQuery(rideshare.bookings, rec.id)
    IN  /\ rec.pc = "select"
        /\ rideshare' = [rideshare EXCEPT !.request[r] =
              IF ~ok THEN BookDone(rec, 500)
              ELSE IF Len(rows) = 0 THEN BookDone(rec, 404)
              ELSE IF rows[1].driver_id = rec.userId THEN BookDone(rec, 400)
              ELSE IF rows[1].available_seats < rec.seats
                   THEN BookDone([rec EXCEPT !.available_seats = rows[1].available_seats], 400)
              ELSE [rec EXCEPT !.pc = "insert", !.available_seats = rows[1].available_seats]]
        /\ UNCHANGED <<redisReady, cache, call, probe, page>>

\* the INSERT answers, or fails
BookInsertReply(r, ok) ==
    LET rec == rideshare.request[r]
    IN  /\ rec.pc = "insert"
        /\ rideshare' =
              IF ok
              THEN [bookings |-> Append(rideshare.bookings,
                                        [user_id |-> rec.userId, ride_id |-> rec.id,
                                         seats |-> rec.seats]),
                    request |-> [rideshare.request EXCEPT ![r] = BookDone(rec, 200)]]
              ELSE [rideshare EXCEPT !.request[r] = BookDone(rec, 500)]
        /\ UNCHANGED <<redisReady, cache, call, probe, page>>

BookInit ==
    /\ redisReady = TRUE
    /\ cache = [k \in {} |-> 0]
    /\ call = [c \in Calls |-> Idle]
    /\ probe = NoProbe
    /\ rideshare = NoBookings
    /\ page = NoSearches

BookNext ==
    \/ \E r \in Bookers, userId \in Users, id \in {1, 2}, seats \in 1..2 : Book(r, userId, id, seats)
    \/ \E r \in Bookers, ok \in BOOLEAN : BookSelectReply(r, ok)
    \/ \E r \in Bookers, ok \in BOOLEAN : BookInsertReply(r, ok)

BookSpec == BookInit /\ [][BookNext]_vars

(***************************************************************************)
(* The station autocomplete of the map page.  A search is one run of       *)
(* handleStationSearch, started when the debounce timer fires; searches    *)
(* lists the runs in the order they were started, each "pending" at its    *)
(* await of transportService.getStations until the answer arrives.         *)
(***************************************************************************)
SearchQueries == {"Bo", "Bo ", "Boz", "Bozen ", "Meran"}

\* what the backend's station search answers for a query text
stationsFor(query) == <<[id |-> "stop:" \o query, name |-> query]>>

\* the suggestion list as the page renders it
displayedSuggestions ==
    IF Len(page.stationSuggestions) > 0 /\ Len(page.stationSearchQuery) >= 3
    THEN page.stationSuggestions ELSE <<>>

\* handleStationQueryChange with the text last typed, and handleStationSearch
\* up to its await
handleStationSearch(query) ==
    /\ Len(page.searches) < MaxSearches
    /\ page' =
          IF ~Truthy(query) \/ Len(Trim(query)) < 3
          THEN [stationSearchQuery |-> query, stationSuggestions |-> <<>>,
                searches |-> Append(page.searches, [query |-> query, state |-> "short"])]
          ELSE [page EXCEPT !.stationSearchQuery = query,
                            !.searches = Append(@, [query |-> Trim(query), state |-> "pending"])]
    /\ UNCHANGED <<redisReady, cache, call, probe, rideshare>>

\* getStations resolves with the stations, or rejects: the rest of the run
SearchReply(i, ok) ==
    /\ i \in 1..Len(page.searches)
    /\ page.searches[i].state = "pending"
    /\ page' = [page EXCEPT
                    !.stationSuggestions = IF ok THEN stationsFor(page.searches[i].query) ELSE <<>>,
                    !.searches[i].state = IF ok THEN "resolved" ELSE "rejected"]
    /\ UNCHANGED <<redisReady, cache, call, probe, rideshare>>

PageInit == BookInit

PageNext ==
    \/ \E query \in SearchQueries : handleStationSearch(query)
    \/ \E i \in 1..MaxSearches, ok \in BOOLEAN : SearchReply(i, ok)

PageSpec == PageInit /\ [][PageNext]_vars

(***************************************************************************)
(* C12: the total duration of an itinerary counts only strictly positive   *)
(* waits: two legs with travel times 10 and 15 minutes give 30 with a      *)
(* 5-minute gap between them, 25 with no gap, and 25 when the second leg   *)
(* departs before the first arrives.                                       *)
(***************************************************************************)
C12_Gap == probe.in.dep2 - probe.in.arr1
C12_Travel2 == probe.in.arr2 - probe.in.dep2

C12_TotalCountsPositiveWaits ==
    (probe.fn = "route" /\ probe.pc = "done" /\ C12_Travel2 > 0) =>
        probe.out.route.duration =
            Num(10 + C12_Travel2 + (IF C12_Gap > 0 THEN C12_Gap ELSE 0))

C12_Witness ==
    /\ probe.fn = "route" /\ probe.pc = "done"
    /\ C12_Travel2 = 15 /\ C12_Gap = 0 - 5
    /\ probe.out.route.duration = Num(25)

(***************************************************************************)
(* C13: calculateDurationMinutes returns unavailable when either instant   *)
(* is absent or the end is before the start; otherwise it returns the      *)
(* difference in minutes rounded to the nearest integer, which is >= 0     *)
(* (0 when the end is the start).                                          *)
(***************************************************************************)
C13_Applied == probe.fn = "duration" /\ probe.pc = "done"
C13_Unavailable ==
    \/ probe.in.startDate = <<>> \/ probe.in.endDate = <<>>
    \/ probe.in.endDate[1] < probe.in.startDate[1]

C13_DurationRoundedOrUnavailable ==
    C13_Applied =>
        IF C13_Unavailable THEN probe.out.minutes = <<>>
        ELSE LET seconds == probe.in.endDate[1] - probe.in.startDate[1]
                 minutes == probe.out.minutes
             IN  /\ minutes # <<>>
                 /\ minutes[1] >= 0
                 /\ 60 * minutes[1] - 30 <= seconds /\ seconds < 60 * minutes[1] + 30
                 /\ (seconds = 0 => minutes[1] = 0)

C13_Witness ==
    /\ C13_Applied
    /\ probe.in.startDate # <<>> /\ probe.in.endDate # <<>>
    /\ probe.in.endDate[1] < probe.in.startDate[1]
    /\ probe.out.minutes = <<>>

(***************************************************************************)
(* C14: every segment of every itinerary has a duration that is absent or  *)
(* a number >= 0, a walk segment whose duration is the provider's own      *)
(* figure included.                                                        *)
(***************************************************************************)
C14_SegmentDurationNonNegative ==
    (probe.fn = "route" /\ probe.pc = "done") =>
        \A i \in 1..Len(probe.out.route.segments) :
            LET duration == probe.out.route.segments[i].segmentDuration
            IN  duration = JsNull \/ (IsNum(duration) /\ duration.num >= 0)

(***************************************************************************)
(* C15: parseEfaDateTime returns the instant of the composed calendar time *)
(* (seconds 00) when year, month, day, hour and minute are all present and *)
(* numeric; it returns unavailable when the object is absent, when a field *)
(* is missing or not numeric, or when the composed string is not a valid   *)
(* calendar instant.                                                       *)
(***************************************************************************)
C15_Number(f) ==
    IF f \in DOMAIN probe.in.efaDateTime /\ AllDigits(probe.in.efaDateTime[f], Len(probe.in.efaDateTime[f]))
    THEN <<DigitsToInt(probe.in.efaDateTime[f], 0)>> ELSE <<>>

C15_DaysIn(year, month) ==
    IF month = 2 THEN (IF IsLeap(year) THEN 29 ELSE 28)
    ELSE IF month \in {4, 6, 9, 11} THEN 30 ELSE 31

C15_CalendarInstant ==
    /\ \A f \in {"year", "month", "day", "hour", "minute"} : C15_Number(f) # <<>>
    /\ C15_Number("month")[1] \in 1..12
    /\ C15_Number("day")[1] \in 1..C15_DaysIn(C15_Number("year")[1], C15_Number("month")[1])
    /\ C15_Number("hour")[1] \in 0..23
    /\ C15_Number("minute")[1] \in 0..59

C15_InstantOrUnavailable ==
    (probe.fn = "dateTime" /\ probe.pc = "done") =>
        IF C15_CalendarInstant
        THEN probe.out.date =
                <<((DaysFrom2000(C15_Number("year")[1], C15_Number("month")[1],
                                 C15_Number("day")[1]) * 24
                    + C15_Number("hour")[1]) * 60 + C15_Number("minute")[1]) * 60>>
        ELSE probe.out.date = <<>>

(***************************************************************************)
(* C16: for a packed string "<lon>,<lat>" whose two parts are finite       *)
(* numbers extractCoords returns (lat, lon); for every other input (absent *)
(* reference, absent or non-string coords, one part, three or more parts,  *)
(* a part that is not a finite number) it returns absent and never raises. *)
(***************************************************************************)
\* s is a decimal numeral from its first character to its last
C16_Numeral(s) ==
    LET u == IF Signed(s) THEN Tail(s) ELSE s
        ip == TakeDigits(u)
        rest == Drop(u, Len(ip))
        dot == Len(rest) > 0 /\ Head(rest) = "."
        fp == IF dot THEN TakeDigits(Tail(rest)) ELSE ""
    IN  /\ Len(ip) + Len(fp) > 0
        /\ Len(u) = Len(ip) + (IF dot THEN 1 + Len(fp) ELSE 0)

C16_Packed ==
    /\ Has(probe.in.pointRef, "coords")
    /\ Len(Split(probe.in.pointRef.coords, "")) = 2
    /\ \A i \in 1..2 : C16_Numeral(Split(probe.in.pointRef.coords, "")[i])

C16_SwappedOrAbsent ==
    (probe.fn = "coords" /\ probe.pc = "done") =>
        IF C16_Packed
        THEN probe.out = [value |-> <<parseFloat(Split(probe.in.pointRef.coords, "")[2])[1],
                                      parseFloat(Split(probe.in.pointRef.coords, "")[1])[1]>>]
        ELSE probe.out = [value |-> <<>>]

(***************************************************************************)
(* C17: the GeoPoint of every returned Station is absent or has            *)
(* -90 <= lat <= 90 and -180 <= lon <= 180; a source string whose numbers  *)
(* fall outside these ranges yields an absent GeoPoint.                    *)
(***************************************************************************)
C17_GeoPointInRange ==
    (probe.fn = "station" /\ probe.pc = "done") =>
        \/ probe.out.station.coords = <<>>
        \/ /\ probe.out.station.coords[1] \in (0 - 90 * Scale)..(90 * Scale)
           /\ probe.out.station.coords[2] \in (0 - 180 * Scale)..(180 * Scale)

(***************************************************************************)
(* C18: every returned Departure has a delay that is a number of minutes   *)
(* >= 0, whatever delay figure the provider supplied; when the provider    *)
(* figure is exactly zero and both instants are available the delay is the *)
(* scheduled-to-realtime difference if that is strictly positive, and 0    *)
(* otherwise.                                                              *)
(***************************************************************************)
C18_Recomputed ==
    IF probe.in.real > probe.in.scheduled THEN probe.in.real - probe.in.scheduled ELSE 0

C18_DelayNonNegative ==
    (probe.fn = "departure" /\ probe.pc = "done") =>
        /\ IsNum(probe.out.departure.delay)
        /\ probe.out.departure.delay.num >= 0
        /\ probe.in.dep.delay = Num(0) => probe.out.departure.delay = Num(C18_Recomputed)

(***************************************************************************)
(* C19: cache keys are unique per (endpoint, normalized parameters): two   *)
(* calls that differ in endpoint, in from/to, in trimmed query text or in  *)
(* station identifier never read or overwrite the same key; proximity      *)
(* searches whose coordinates agree to 4 decimals are the only sharing.    *)
(***************************************************************************)
C19_Parameters(r) ==
    CASE r.op = "route" -> <<r.query.from, r.query.to>>
      [] r.op = "stations" -> <<Trim(r.query.query)>>
      [] r.op = "nearby" ->
            <<toFixed4(parseFloat(r.query.lat)[1]), toFixed4(parseFloat(r.query.lon)[1]),
              IntToStr(radiusOf(r.query)[1])>>
      [] r.op = "departures" -> <<Or(Get(r.query, "stationId"), Get(r.query, "stationName"))>>

C19_KeysUniquePerQuery ==
    (probe.fn = "keys" /\ probe.pc = "done" /\ probe.out.first = probe.out.second) =>
        /\ probe.in.first.op = probe.in.second.op
        /\ C19_Parameters(probe.in.first) = C19_Parameters(probe.in.second)

(***************************************************************************)
(* C20: a cache write happens only on the Success path.  A step that       *)
(* writes a cache entry is the store of a request whose provider payload   *)
(* was delivered without error, unknown stop or unresolved ambiguity, and  *)
(* that request ends in ServeFresh; a request that ends in RejectedInput,  *)
(* RejectedAmbiguous, RejectedNotFound, UpstreamUnavailable or ServeCached *)
(* has attempted no store.                                                 *)
(***************************************************************************)
C20_Written ==
    \E k \in DOMAIN cache' :
        \/ k \notin DOMAIN cache
        \/ cache'[k].val # cache[k].val
        \/ cache'[k].left > cache[k].left

C20_Success(rec) ==
    /\ rec.reply.kind = "data"
    /\ ~Truthy(Get(responseData(rec), "error"))
    /\ rec.op = "route" => ~ambiguousLocation(responseData(rec))
    /\ rec.op = "departures" => ~stopNotFound(responseData(rec))

C20_NoStore ==
    {"RejectedInput", "RejectedAmbiguous", "RejectedNotFound", "UpstreamUnavailable", "ServeCached"}

C20_WriteOnlyOnSuccess ==
    [][/\ C20_Written =>
            \E c \in Calls :
                /\ call[c].pc = "store" /\ C20_Success(call[c])
                /\ call'[c].pc = "done" /\ call'[c].path = "fresh"
                /\ cache'[call[c].key].val = stringify(call[c].result)
       /\ \A c \in Calls :
            (call'[c].pc = "done" /\ call'[c].resp # <<>> /\ call'[c].path # "fresh") =>
                /\ call'[c].store = "none"
                /\ call[c].pc = "done" \/ cache' = cache]_vars

C20_Witness ==
    \E c, d \in Calls :
        /\ call[c].store = "ok" /\ call[c].key \in DOMAIN cache
        /\ Terminal(call[d]) \in C20_NoStore \ {"ServeCached"}
        /\ fetched(call[d])

(***************************************************************************)
(* C21: two queries for the same key that run concurrently and both miss   *)
(* the cache do not block or fail each other: each one whose provider      *)
(* fetch delivers a successful payload ends in ServeFresh with its own     *)
(* result, and once both have stored, the key holds the complete result of *)
(* one of the two (never a mixture, never an empty slot).                  *)
(***************************************************************************)
C21_Missed(c) ==
    /\ call[c].pc \notin {"idle", "lookup"} /\ call[c].path # "validation"
    /\ call[c].cached = <<>>

C21_Concurrent(c, d) ==
    /\ c # d /\ C21_Missed(c) /\ C21_Missed(d)
    /\ call[c].key = call[d].key
    /\ c \notin call[d].after /\ d \notin call[c].after

C21_Delivered(c) ==
    /\ call[c].pc = "done" /\ call[c].reply.kind = "data"
    /\ classify(call[c].op, responseData(call[c])) = "success"

C21_ConcurrentMissesBothServeFresh ==
    \A c, d \in Calls :
        C21_Concurrent(c, d) =>
            /\ call[c].pc \in {"fetch", "store", "done"}
            /\ C21_Delivered(c) =>
                  /\ Terminal(call[c]) = "ServeFresh"
                  /\ lastResponse(call[c]) =
                        Response(200, stringify(normalize(call[c].op, responseData(call[c]))))
            /\ (/\ C21_Delivered(c) /\ C21_Delivered(d)
                /\ call[c].store = "ok" /\ call[d].store = "ok"
                /\ call[c].age = 0 /\ call[d].age = 0) =>
                  /\ call[c].key \in DOMAIN cache
                  /\ cache[call[c].key].val \in
                        {stringify(call[c].result), stringify(call[d].result)}

C21_Witness ==
    \E c, d \in Calls :
        /\ C21_Concurrent(c, d) /\ C21_Delivered(c) /\ C21_Delivered(d)
        /\ call[c].store = "ok" /\ call[d].store = "ok"
        /\ call[c].result # call[d].result
        /\ call[c].key \in DOMAIN cache
        /\ cache[call[c].key].val = stringify(call[d].result)

(***************************************************************************)
(* C22: the proximity key is built from latitude and longitude truncated   *)
(* to 4 decimal places plus the radius: two valid queries with equal       *)
(* radius use the same key when their coordinates have the same 4-decimal  *)
(* truncation, and different keys when the truncations differ.             *)
(***************************************************************************)
\* the value of s cut after its fourth decimal, in 1e-4
C22_Truncated(s) ==
    LET v == parseFloat(s)[1]
    IN  IF v < 0 THEN 0 - ((0 - v) \div 10) ELSE v \div 10

C22_SameTruncation(q1, q2) ==
    /\ C22_Truncated(q1.lat) = C22_Truncated(q2.lat)
    /\ C22_Truncated(q1.lon) = C22_Truncated(q2.lon)

C22_Rounded(s) ==
    LET v == parseFloat(s)[1]
    IN  IF v < 0 THEN 0 - ((5 - v) \div 10) ELSE (v + 5) \div 10

C22_SameRounding(q1, q2) ==
    /\ C22_Rounded(q1.lat) = C22_Rounded(q2.lat)
    /\ C22_Rounded(q1.lon) = C22_Rounded(q2.lon)

C23_TotalIsTravelPlusPositiveWaits ==
    (probe.fn = "route" /\ probe.pc = "done") =>
        probe.out.route.duration =
            Num((probe.in.arr1 - probe.in.dep1)
                + (IF probe.in.arr2 >= probe.in.dep2 THEN probe.in.arr2 - probe.in.dep2 ELSE 0)
                + (IF probe.in.dep2 > probe.in.arr1 THEN probe.in.dep2 - probe.in.arr1 ELSE 0))

(***************************************************************************)
(* C24: if the accumulated total of an itinerary is greater than zero its  *)
(* duration is that total; otherwise it is exactly the provider-supplied   *)
(* duration value, unchanged (absent when the provider supplied none).     *)
(***************************************************************************)
C24_Built == probe.fn = "trip" /\ probe.pc = "done"

C24_ProviderDurationKept ==
    C24_Built =>
        probe.out.route.duration =
            IF probe.in.total > 0 THEN Num(probe.in.total)
            ELSE IF Has(probe.in.trip, "duration") THEN probe.in.trip.duration
            ELSE JsNull

(***************************************************************************)
(* C24 as amended: if the accumulated total is greater than zero the       *)
(* duration is that total; otherwise it is the provider-supplied value,    *)
(* unchanged, when that value is neither the empty string nor 0, and       *)
(* absent (null) when the provider supplied none, the empty string or 0.   *)
(***************************************************************************)
C24_DurationOverride ==
    C24_Built =>
        probe.out.route.duration =
            IF probe.in.total > 0 THEN Num(probe.in.total)
            ELSE IF /\ Has(probe.in.trip, "duration")
                    /\ probe.in.trip.duration \notin {Num(0), Str("")}
                 THEN probe.in.trip.duration
            ELSE JsNull

C24_Witness ==
    /\ C24_Built /\ probe.in.total = 0
    /\ Has(probe.in.trip, "duration") /\ probe.in.trip.duration = Str("--")
    /\ probe.out.route.duration = Str("--")

(***************************************************************************)
(* C25: the points of a leg are read as a sequence whatever their shape: a *)
(* single object is a one-element sequence (origin and destination are     *)
(* both that point), an array is used in order (first = origin, last =     *)
(* destination), and an absent field is the empty sequence, which yields   *)
(* the placeholder names.                                                  *)
(***************************************************************************)
C25_Points(leg) ==
    IF ~Has(leg, "points") THEN <<>>
    ELSE IF IsArray(leg.points) THEN leg.points.arr
    ELSE <<leg.points.obj>>

C25_Name(points, i) == IF points = <<>> THEN "N/A" ELSE points[i].name

C25_PointsOfAnyShape ==
    (probe.fn = "trip" /\ probe.pc = "done") =>
        /\ Len(probe.out.route.segments) = Len(probe.in.trip.legs.arr)
        /\ \A i \in 1..Len(probe.out.route.segments) :
              LET points == C25_Points(probe.in.trip.legs.arr[i])
              IN  /\ probe.out.route.segments[i].from = C25_Name(points, 1)
                  /\ probe.out.route.segments[i].to = C25_Name(points, Len(points))

(***************************************************************************)
(* C26: a segment's operator name is the first name available in the order *)
(* explicit operator object, transport-mode operator, serving-line display *)
(* name, and is absent only when none of the three supplies a name; an     *)
(* earlier link that is present but carries no name does not keep a later  *)
(* link's name from being used.                                            *)
(***************************************************************************)
C26_Names(leg) ==
    <<Get(Sub(Sub(leg, "servingLine"), "operator"), "name"),
      Get(Sub(Sub(leg, "mode"), "operator"), "name"),
      Get(Sub(leg, "servingLine"), "name")>>

C26_FirstName(leg) ==
    IF \A i \in 1..3 : ~Truthy(C26_Names(leg)[i]) THEN JsNull
    ELSE Str(C26_Names(leg)[CHOOSE i \in 1..3 :
                                /\ Truthy(C26_Names(leg)[i])
                                /\ \A j \in 1..(i - 1) : ~Truthy(C26_Names(leg)[j])])

C26_OperatorFallbackChain ==
    (probe.fn = "trip" /\ probe.pc = "done") =>
        \A i \in 1..Len(probe.out.route.segments) :
            probe.out.route.segments[i].operator = C26_FirstName(probe.in.trip.legs.arr[i])

(***************************************************************************)
(* C27: when the first station built from the provider's answer carries a  *)
(* distance, the stations are returned in non-decreasing order of distance *)
(* (a station at distance 0 first, stations without a distance last); when *)
(* it carries none, the provider's order is returned unchanged.            *)
(***************************************************************************)
C27_Distance(st) ==
    IF IsNum(st.distance) THEN st.distance.num ELSE DigitsToInt(st.distance.str, 0)

C27_InOrder(a, b) ==
    \/ ~Has(b, "distance")
    \/ Has(a, "distance") /\ C27_Distance(a) <= C27_Distance(b)

C27_SortedByDistance ==
    (probe.fn = "nearby" /\ probe.pc = "done") =>
        LET points == probe.in.efaData.stopFinder.points.arr
            stations == probe.out.stations
        IN  /\ Len(stations) = Len(points)
            /\ IF Has(points[1].ref, "distance")
               THEN \A i \in 1..(Len(stations) - 1) : C27_InOrder(stations[i], stations[i + 1])
               ELSE \A i \in 1..Len(stations) : stations[i].id = points[i].ref.id

(***************************************************************************)
(* C28: each transport request sends exactly one HTTP response on every    *)
(* path on which its handler runs to its end: a request whose handler has  *)
(* ended has sent one response, whichever branch ended it, and a request   *)
(* still waiting for redis or the provider has sent none.                  *)
(***************************************************************************)
C28_ExactlyOneResponse ==
    \A c \in Calls :
        Len(call[c].resp) = IF call[c].pc = "done" THEN 1 ELSE 0

C28_Witness ==
    \E c, d \in Calls :
        /\ call[c].op = "departures" /\ call[c].pc = "done"
        /\ call[c].reply = [kind |-> "http", status |-> 404]
        /\ Len(call[c].resp) = 1
        /\ call[d].pc = "done" /\ call[d].path = "notFound" /\ Len(call[d].resp) = 1

(***************************************************************************)
(* C29: ride booking never oversells: after any interleaving of            *)
(* POST /:id/book requests for a ride, the seats of the ride's stored      *)
(* bookings sum to at most the ride's seats (the computed available_seats  *)
(* is never negative).                                                     *)
(***************************************************************************)
C29_Stored(id) == {i \in 1..Len(rideshare.bookings) : rideshare.bookings[i].ride_id = id}

RECURSIVE C29_Sum(_)
C29_Sum(indices) ==
    IF indices = {} THEN 0
    ELSE LET i == CHOOSE j \in indices : TRUE
         IN  rideshare.bookings[i].seats + C29_Sum(indices \ {i})

C29_NeverOversold ==
    \A id \in DOMAIN rides : C29_Sum(C29_Stored(id)) <= rides[id].seats

(***************************************************************************)
(* C30: station autocomplete shows the answer to the latest query: once    *)
(* every search in flight has settled, the suggestion list is the result   *)
(* of the search issued last (empty when that query was too short or its   *)
(* request failed), never that of an earlier one.                          *)
(***************************************************************************)
C30_Settled ==
    /\ page.searches # <<>>
    /\ \A i \in 1..Len(page.searches) : page.searches[i].state # "pending"

C30_Latest == page.searches[Len(page.searches)]

C30_ShowsLatestQuery ==
    C30_Settled =>
        displayedSuggestions =
            IF C30_Latest.state = "resolved"
            THEN <<[id |-> "stop:" \o C30_Latest.query, name |-> C30_Latest.query]>>
            ELSE <<>>

====
